---- MODULE Spec2Model ----
(***************************************************************************)
(* Model of the stateless-rs transition engine: the builder phase          *)
(* (StateMachineBuilder, StateConfig handles over Rc<RefCell<..>>), the    *)
(* sealing step (build) and the firing protocol (StateMachine::fireone).   *)
(***************************************************************************)
EXTENDS Integers, Sequences, FiniteSets, TLC

\* ---------------------------------------------------------------- domains
\* enum State of src/src/lib.rs (EnumIter), enum Trigger of src/src/lib.rs
States == {"State1", "State2"}
Triggers == {"Trig", "Trig2"}

\* closures handed to on_entry / on_exit / internal_transition: `*object += a`
ActionIds == {1, 2}
\* closures handed to on_transitioned, identified by what they capture
ListenerIds == {1, 2}

\* bounds of the exploration
MaxHandles == 2
MaxRegs == 3
MaxObject == 2

NoState == "NoState"
NoTrigger == "NoTrigger"

\* ------------------------------------------------------------ error values
Ok == [kind |-> "Ok"]
NotCalled == [kind |-> "NotCalled"]
Panic == [kind |-> "panic"]
StateNotConfigured(s) == [kind |-> "StateNotConfigured", state |-> s]
TriggerNotPermitted(s, t) == [kind |-> "TriggerNotPermitted", state |-> s, trigger |-> t]
ConfigStillInUse(s) == [kind |-> "ConfigStillInUse", state |-> s]
Unknown == [kind |-> "Unknown"]

\* ------------------------------------------------------- trigger behaviour
TransitioningTriggerBehaviour_new(trigger, destination) ==
    [kind |-> "Transitioning", trigger |-> trigger, destination |-> destination]

InternalTransitioningTriggerBehaviour_new(trigger) ==
    [kind |-> "Internal", trigger |-> trigger]

\* a fire that ignores the destination of the behaviour
Transitioning_fire_to_source(b, source) == source

\* TriggerBehaviour::fire of both implementations
Transitioning_fire(b, source) == b.destination

\* a fire that answers with one fixed state
Internal_fire_fixed(b, source) == "State1"

Internal_fire(b, source) == source

\* -------------------------------------------------------------- transition
Transition_new(source, trigger, destination) ==
    [source |-> source, destination |-> destination, trigger |-> trigger]

\* a re-entry test that looks at the trigger instead of the destination
is_reentry_by_trigger(transition) == transition.trigger = NoTrigger

is_reentry(transition) == transition.source = transition.destination

NoTransition == Transition_new(NoState, NoTrigger, NoState)

\* ---------------------------------------------------- state representation
EmptyMap == [x \in {} |-> <<>>]

StateRepresentation_new(state) ==
    [state |-> state,
     trigger_behaviours |-> EmptyMap,
     entry_actions |-> <<>>,
     exit_actions |-> <<>>,
     internal_actions |-> EmptyMap]

\* an insert that keeps the value already stored under the key
add_trigger_behaviour_keep_first(rep, trigger, behaviour) ==
    [rep EXCEPT !.trigger_behaviours = @ @@ (trigger :> behaviour)]

\* HashMap::insert: the new value replaces the one stored under the key
add_trigger_behaviour(rep, trigger, behaviour) ==
    [rep EXCEPT !.trigger_behaviours = (trigger :> behaviour) @@ @]

\* an entry action that takes the place of the ones registered before
add_entry_action_replacing(rep, f) ==
    [rep EXCEPT !.entry_actions = <<f>>]

add_entry_action(rep, f) ==
    [rep EXCEPT !.entry_actions = Append(@, f)]

add_exit_action(rep, f) ==
    [rep EXCEPT !.exit_actions = Append(@, f)]

\* entry(trigger).or_default().push(f)
add_internal_action(rep, trigger, f) ==
    [rep EXCEPT !.internal_actions =
        (trigger :> Append(IF trigger \in DOMAIN @ THEN @[trigger] ELSE <<>>, f)) @@ @]

\* get_behaviour that lets an unknown trigger through as an in-place firing
get_behaviour_lenient(rep, trigger) ==
    IF trigger \in DOMAIN rep.trigger_behaviours
    THEN [ok |-> TRUE, behaviour |-> rep.trigger_behaviours[trigger], err |-> Ok]
    ELSE [ok |-> TRUE, behaviour |-> InternalTransitioningTriggerBehaviour_new(trigger),
          err |-> Ok]

\* a lookup that reports a state nothing was registered for as not configured
get_behaviour_unconfigured(rep, trigger) ==
    IF trigger \in DOMAIN rep.trigger_behaviours
    THEN [ok |-> TRUE, behaviour |-> rep.trigger_behaviours[trigger], err |-> Ok]
    ELSE [ok |-> FALSE, behaviour |-> [kind |-> "None"],
          err |-> IF DOMAIN rep.trigger_behaviours = {}
                  THEN StateNotConfigured(rep.state)
                  ELSE TriggerNotPermitted(rep.state, trigger)]

get_behaviour(rep, trigger) ==
    IF trigger \in DOMAIN rep.trigger_behaviours
    THEN [ok |-> TRUE, behaviour |-> rep.trigger_behaviours[trigger], err |-> Ok]
    ELSE [ok |-> FALSE, behaviour |-> [kind |-> "None"],
          err |-> TriggerNotPermitted(rep.state, trigger)]

\* One action invocation.  m is the machine while fireone runs: its
\* current_state, its context (object, behind the mutex `locked`) and the
\* record `log` of what has been invoked so far in this call.
LogEntry(kind, owner, idx, act, transition, m) ==
    [kind |-> kind, state |-> owner, idx |-> idx, act |-> act,
     transition |-> transition, cur |-> m.current_state, object |-> m.object]

MutexEntry(kind, m) ==
    [kind |-> kind, state |-> NoState, idx |-> 0, act |-> 0,
     transition |-> NoTransition, cur |-> m.current_state, object |-> m.object]

\* state_object.lock().unwrap()
lock(m) == [m EXCEPT !.locked = TRUE, !.log = Append(@, MutexEntry("lock", m))]

\* the MutexGuard goes out of scope at the end of the loop body
unlock(m) == [m EXCEPT !.locked = FALSE, !.log = Append(@, MutexEntry("unlock", m))]

\* action(transition, &mut *object) for the closure `*object += act`
call_action(kind, owner, idx, act, transition, m) ==
    LET ran == [m EXCEPT !.object = @ + act]
    IN [ran EXCEPT !.log = Append(@, LogEntry(kind, owner, idx, act, transition, ran))]

\* for action in actions.iter_mut() { let mut object = lock(); action(..) }
RECURSIVE run_actions(_, _, _, _, _, _)
run_actions(kind, owner, actions, i, transition, m) ==
    IF i > Len(actions) THEN m
    ELSE run_actions(kind, owner, actions, i + 1, transition,
                     unlock(call_action(kind, owner, i, actions[i], transition, lock(m))))

enter(rep, transition, m) ==
    run_actions("entry", rep.state, rep.entry_actions, 1, transition, m)

\* exit actions run under one guard taken before the loop
RECURSIVE run_actions_held(_, _, _, _, _, _)
run_actions_held(kind, owner, actions, i, transition, m) ==
    IF i > Len(actions) THEN m
    ELSE run_actions_held(kind, owner, actions, i + 1, transition,
                          call_action(kind, owner, i, actions[i], transition, m))

exit_one_guard(rep, transition, m) ==
    unlock(run_actions_held("exit", rep.state, rep.exit_actions, 1, transition, lock(m)))

exit(rep, transition, m) ==
    run_actions("exit", rep.state, rep.exit_actions, 1, transition, m)

\* internal actions looked up without regard to the trigger of the transition
fire_internal_actions_any_trigger(rep, transition, m) ==
    IF DOMAIN rep.internal_actions = {} THEN m
    ELSE run_actions("internal", rep.state,
                     rep.internal_actions[CHOOSE t \in DOMAIN rep.internal_actions : TRUE],
                     1, transition, m)

fire_internal_actions(rep, transition, m) ==
    IF transition.trigger \notin DOMAIN rep.internal_actions THEN m
    ELSE run_actions("internal", rep.state, rep.internal_actions[transition.trigger],
                     1, transition, m)

\* ------------------------------------------------- transition event handler
TransitionEventHandler_new == [events |-> <<>>]

add_event(handler, f) == [handler EXCEPT !.events = Append(@, f)]

\* for event in self.events.iter_mut() { event(transition) }
RECURSIVE run_events(_, _, _, _)
run_events(events, i, transition, m) ==
    IF i > Len(events) THEN m
    ELSE run_events(events, i + 1, transition,
                    [m EXCEPT !.log = Append(@, LogEntry("listener", NoState, i, events[i],
                                                         transition, m))])

\* fire_events that notifies only when the state changed
fire_events_on_change(handler, transition, m) ==
    IF is_reentry(transition) THEN m ELSE run_events(handler.events, 1, transition, m)

\* fire_events that hands the context to the listeners as it is handed to actions
RECURSIVE run_events_with_context(_, _, _, _)
run_events_with_context(events, i, transition, m) ==
    IF i > Len(events) THEN m
    ELSE run_events_with_context(events, i + 1, transition,
             call_action("listener", NoState, i, events[i], transition, m))

fire_events_with_context(handler, transition, m) ==
    run_events_with_context(handler.events, 1, transition, m)

\* fire_events that consumes the listeners it has called
fire_events_drain(handler, transition, m) ==
    [run_events(handler.events, 1, transition, m) EXCEPT !.transition_event.events = <<>>]

fire_events(handler, transition, m) == run_events(handler.events, 1, transition, m)

\* ------------------------------------------------------------ state machine
VARIABLES
    phase,                  \* "builder", "machine" or "build_failed"; "firing" in a call
    initial_state,          \* StateMachineBuilder.initial_state
    states,                 \* StateMachineBuilder.states: state -> Rc<RefCell<rep>>
    transition_event,       \* the TransitionEventHandler (builder's, then machine's)
    handles,                \* per state, how many StateConfig values the caller holds
    current_state,          \* StateMachine.current_state
    state_representations,  \* StateMachine.state_representations
    object,                 \* the context inside StateMachine.object
    locked,                 \* the mutex around the context
    log,                    \* what the last fire call invoked, in order
    last,                   \* the last fire call: trigger, result, state and context before
    build_result,           \* what build returned
    supplied,               \* actions handed to internal_transition, per state and trigger
    calls,                  \* what the caller asked of each state's StateConfig values
    pending                 \* the fire call in progress: what it has still to do

vars == <<phase, initial_state, states, transition_event, handles, current_state,
          state_representations, object, locked, log, last, build_result, supplied,
          calls, pending>>

\* a constructor that enters the initial state
StateMachine_new_entering(initial, reps, obj, handler) ==
    LET made == [current_state |-> initial, state_representations |-> reps,
                 object |-> obj, locked |-> FALSE, transition_event |-> handler,
                 log |-> <<>>]
    IN IF initial \in DOMAIN reps
       THEN enter(reps[initial], Transition_new(initial, NoTrigger, initial), made)
       ELSE made

StateMachine_new(initial, reps, obj, handler) ==
    [current_state |-> initial,
     state_representations |-> reps,
     object |-> obj,
     locked |-> FALSE,
     transition_event |-> handler,
     log |-> <<>>]

\* a lookup that treats a state nothing was registered for as missing
representation_configured_only(m) ==
    IF /\ m.current_state \in DOMAIN m.state_representations
       /\ m.state_representations[m.current_state] # StateRepresentation_new(m.current_state)
    THEN [some |-> TRUE, rep |-> m.state_representations[m.current_state]]
    ELSE [some |-> FALSE, rep |-> StateRepresentation_new(NoState)]

\* self.state_representations.get_mut(&self.current_state)
representation(m) ==
    IF m.current_state \in DOMAIN m.state_representations
    THEN [some |-> TRUE, rep |-> m.state_representations[m.current_state]]
    ELSE [some |-> FALSE, rep |-> StateRepresentation_new(NoState)]

WriteEntry(transition, m) ==
    [kind |-> "write", state |-> m.current_state, idx |-> 0, act |-> 0,
     transition |-> transition, cur |-> m.current_state, object |-> m.object]

\* self.current_state = transition.destination
set_current_state(m, transition) ==
    LET w == [m EXCEPT !.current_state = transition.destination]
    IN [w EXCEPT !.log = Append(@, WriteEntry(transition, w))]

\* the Transitioning branch with the state written before the exit actions run
fireone_transitioning_early_write(m, rep, b, trigger) ==
    LET source == m.current_state
        destination == Transitioning_fire(b, source)
        transition == Transition_new(source, trigger, destination)
        moved == set_current_state(m, transition)
        exited == exit(rep, transition, moved)
        dest_rep == representation(exited)
    IN IF ~dest_rep.some
       THEN [m |-> exited, result |-> Panic, transition |-> transition]
       ELSE [m |-> enter(dest_rep.rep, transition, exited), result |-> Ok,
             transition |-> transition]

\* the Transitioning branch that also runs what the destination registered as
\* internal actions for the trigger
fireone_transitioning_fires_internal(m, rep, b, trigger) ==
    LET source == m.current_state
        destination == Transitioning_fire(b, source)
        transition == Transition_new(source, trigger, destination)
        exited == exit(rep, transition, m)
        moved == set_current_state(exited, transition)
        dest_rep == representation(moved)
    IN IF ~dest_rep.some
       THEN [m |-> moved, result |-> Panic, transition |-> transition]
       ELSE [m |-> fire_internal_actions(dest_rep.rep, transition,
                                         enter(dest_rep.rep, transition, moved)),
             result |-> Ok, transition |-> transition]

\* the Transitioning branch that enters through the representation it already
\* holds, the one of the source
fireone_transitioning_enter_source(m, rep, b, trigger) ==
    LET source == m.current_state
        destination == Transitioning_fire(b, source)
        transition == Transition_new(source, trigger, destination)
        exited == exit(rep, transition, m)
        moved == set_current_state(exited, transition)
        dest_rep == representation(moved)
    IN IF ~dest_rep.some
       THEN [m |-> moved, result |-> Panic, transition |-> transition]
       ELSE [m |-> enter(rep, transition, moved), result |-> Ok,
             transition |-> transition]

\* the Transitioning branch that treats a transition to the same state as
\* nothing to leave and nothing to enter
fireone_transitioning_skip_reentry(m, rep, b, trigger) ==
    LET source == m.current_state
        destination == Transitioning_fire(b, source)
        transition == Transition_new(source, trigger, destination)
        exited == IF is_reentry(transition) THEN m ELSE exit(rep, transition, m)
        moved == set_current_state(exited, transition)
        dest_rep == representation(moved)
    IN IF ~dest_rep.some
       THEN [m |-> moved, result |-> Panic, transition |-> transition]
       ELSE [m |-> IF is_reentry(transition) THEN moved
                   ELSE enter(dest_rep.rep, transition, moved),
             result |-> Ok, transition |-> transition]

fireone_transitioning(m, rep, b, trigger) ==
    LET source == m.current_state
        destination == Transitioning_fire(b, source)
        transition == Transition_new(source, trigger, destination)
        exited == exit(rep, transition, m)
        moved == set_current_state(exited, transition)
        dest_rep == representation(moved)
    IN IF ~dest_rep.some
       THEN [m |-> moved, result |-> Panic, transition |-> transition]
       ELSE [m |-> enter(dest_rep.rep, transition, moved), result |-> Ok,
             transition |-> transition]

\* the Internal branch handled as a re-entry of the current state
fireone_internal_reentry(m, rep, b, trigger) ==
    LET source == m.current_state
        transition == Transition_new(source, trigger, Internal_fire(b, source))
        exited == exit(rep, transition, m)
    IN [m |-> fire_internal_actions(rep, transition, enter(rep, transition, exited)),
        result |-> Ok, transition |-> transition]

fireone_internal(m, rep, b, trigger) ==
    LET source == m.current_state
        transition == Transition_new(source, trigger, Internal_fire(b, source))
    IN [m |-> fire_internal_actions(rep, transition, m), result |-> Ok,
        transition |-> transition]

\* fireone that notifies the listeners before it resolves the trigger
fireone_notify_first(m, trigger) ==
    LET found == representation(m)
        resolved == get_behaviour(found.rep, trigger)
        notified == fire_events(m.transition_event,
                                Transition_new(m.current_state, trigger, m.current_state), m)
    IN IF ~found.some
       THEN [m |-> m, result |-> Panic, behaviour |-> [kind |-> "None"]]
       ELSE IF ~resolved.ok
       THEN [m |-> notified, result |-> resolved.err, behaviour |-> [kind |-> "None"]]
       ELSE LET b == resolved.behaviour
                branch == IF b.kind = "Transitioning"
                          THEN fireone_transitioning(notified, found.rep, b, trigger)
                          ELSE fireone_internal(notified, found.rep, b, trigger)
            IN [m |-> branch.m, result |-> branch.result, behaviour |-> b]

\* fireone that builds the Transition for the listeners anew after the branch
\* has run
fireone_second_transition(m, trigger) ==
    LET found == representation(m)
        resolved == get_behaviour(found.rep, trigger)
    IN IF ~found.some
       THEN [m |-> m, result |-> Panic, behaviour |-> [kind |-> "None"]]
       ELSE IF ~resolved.ok
       THEN [m |-> m, result |-> resolved.err, behaviour |-> [kind |-> "None"]]
       ELSE LET b == resolved.behaviour
                branch == IF b.kind = "Transitioning"
                          THEN fireone_transitioning(m, found.rep, b, trigger)
                          ELSE fireone_internal(m, found.rep, b, trigger)
            IN IF branch.result # Ok
               THEN [m |-> branch.m, result |-> branch.result, behaviour |-> b]
               ELSE [m |-> fire_events(branch.m.transition_event,
                                       Transition_new(branch.m.current_state, trigger,
                                                      branch.transition.destination),
                                       branch.m),
                     result |-> Ok, behaviour |-> b]

fireone(m, trigger) ==
    LET found == representation(m)
        resolved == get_behaviour(found.rep, trigger)
    IN IF ~found.some
       THEN [m |-> m, result |-> Panic, behaviour |-> [kind |-> "None"]]
       ELSE IF ~resolved.ok
       THEN [m |-> m, result |-> resolved.err, behaviour |-> [kind |-> "None"]]
       ELSE LET b == resolved.behaviour
                branch == IF b.kind = "Transitioning"
                          THEN fireone_transitioning(m, found.rep, b, trigger)
                          ELSE fireone_internal(m, found.rep, b, trigger)
            IN IF branch.result # Ok
               THEN [m |-> branch.m, result |-> branch.result, behaviour |-> b]
               ELSE [m |-> fire_events(branch.m.transition_event, branch.transition, branch.m),
                     result |-> Ok, behaviour |-> b]

fire(m, trigger) == fireone(m, trigger)

\* ------------------------------------------------------------------ builder
Rc_new(value) == [strong |-> 1, value |-> value]

Rc_clone(rc) == [rc EXCEPT !.strong = @ + 1]

Rc_drop(rc) == [rc EXCEPT !.strong = @ - 1]

\* unwrap that never looks at the other owners
unwrap_rc_and_refcell_unchecked(item) == [ok |-> TRUE, val |-> item.value]

\* unwrap that holds a clone of its own while it tries
unwrap_rc_and_refcell_cloned(item) ==
    IF Rc_clone(item).strong = 1
    THEN [ok |-> TRUE, val |-> item.value]
    ELSE [ok |-> FALSE, val |-> item.value]

\* Rc::try_unwrap succeeds only for the sole owner
unwrap_rc_and_refcell(item) ==
    IF item.strong = 1
    THEN [ok |-> TRUE, val |-> item.value]
    ELSE [ok |-> FALSE, val |-> item.value]

\* a constructor that creates the initial state's representation only
Builder_new_initial_only(initial) ==
    [initial_state |-> initial,
     states |-> [s \in {initial} |-> Rc_new(StateRepresentation_new(s))],
     transition_event |-> TransitionEventHandler_new]

\* S::iter().map(|state| (state, Rc::new(RefCell::new(new(state))))).collect()
Builder_new(initial) ==
    [initial_state |-> initial,
     states |-> [s \in States |-> Rc_new(StateRepresentation_new(s))],
     transition_event |-> TransitionEventHandler_new]

\* self.states.get(&state).expect(..) and StateConfig::new(Rc::clone(representation)):
\* the table after the call, its entry for state shared with the new handle
\* a config that hands out a representation of its own instead of a clone of
\* the table's Rc
config_fresh(table, state) ==
    [table EXCEPT ![state] = Rc_clone(Rc_new(StateRepresentation_new(state)))]

config(table, state) == [table EXCEPT ![state] = Rc_clone(@)]

\* HashMap::into_iter visits the entries in an order the caller does not control
Orders(S) == {o \in [1..Cardinality(S) -> S] : \A i, j \in DOMAIN o : o[i] = o[j] => i = j}

\* collect::<Result<HashMap<..>, _>>() stops at the first Err
RECURSIVE collect_reps(_, _, _, _)
collect_reps(table, order, i, acc) ==
    IF i > Len(order) THEN [ok |-> TRUE, reps |-> acc, err |-> Ok]
    ELSE LET state == order[i]
             rep == unwrap_rc_and_refcell(table[state])
         IN IF rep.ok
            THEN collect_reps(table, order, i + 1, (state :> rep.val) @@ acc)
            ELSE [ok |-> FALSE, reps |-> EmptyMap, err |-> ConfigStillInUse(rep.val.state)]

build(builder, state_object, order) ==
    LET state_reps == collect_reps(builder.states, order, 1, EmptyMap)
    IN IF state_reps.ok
       THEN [ok |-> TRUE, err |-> Ok,
             machine |-> StateMachine_new(builder.initial_state, state_reps.reps,
                                          state_object, builder.transition_event)]
       ELSE [ok |-> FALSE, err |-> state_reps.err,
             machine |-> StateMachine_new(NoState, EmptyMap, 0, TransitionEventHandler_new)]

\* StateConfig methods: self.rep.borrow_mut().add_..(..) on the shared cell
permit(rc, trigger, destination_state) ==
    [rc EXCEPT !.value = add_trigger_behaviour(@, trigger,
                            TransitioningTriggerBehaviour_new(trigger, destination_state))]

internal_transition(rc, trigger, internal_action) ==
    [rc EXCEPT !.value = add_trigger_behaviour(@, trigger,
                            InternalTransitioningTriggerBehaviour_new(trigger))]

on_entry(rc, f) == [rc EXCEPT !.value = add_entry_action(@, f)]

on_exit(rc, f) == [rc EXCEPT !.value = add_exit_action(@, f)]

on_transitioned(handler, f) == add_event(handler, f)

\* ------------------------------------------------------------------ actions
InitialObjects == {0}

NoCall == [trigger |-> NoTrigger, result |-> NotCalled, source |-> NoState,
           object |-> 0, behaviour |-> [kind |-> "None"]]

\* the caller's view of one state: the behaviour last asked for per trigger and
\* the closures handed to on_entry and on_exit, in the order of the calls
NoRequest == [kind |-> "None", destination |-> NoState]

NoCalls == [behaviour |-> [t \in Triggers |-> NoRequest], entry |-> <<>>, exit |-> <<>>]

\* no fire call is in progress
NoPending == [todo |-> <<>>, result |-> NotCalled, behaviour |-> [kind |-> "None"]]

Init ==
    \E initial \in States :
        LET builder == Builder_new(initial)
        IN /\ phase = "builder"
           /\ initial_state = builder.initial_state
           /\ states = builder.states
           /\ transition_event = builder.transition_event
           /\ handles = [s \in States |-> 0]
           /\ current_state = NoState
           /\ state_representations = EmptyMap
           /\ object = 0
           /\ locked = FALSE
           /\ log = <<>>
           /\ last = NoCall
           /\ build_result = NotCalled
           /\ supplied = [s \in States |-> [t \in Triggers |-> <<>>]]
           /\ calls = [s \in States |-> NoCalls]
           /\ pending = NoPending

machine_vars == <<current_state, state_representations, object, locked, log, last,
                  build_result, pending>>

RECURSIVE SumOver(_, _)
SumOver(S, f) ==
    IF S = {} THEN 0
    ELSE LET x == CHOOSE y \in S : TRUE IN f[x] + SumOver(S \ {x}, f)

\* the StateConfig values alive
LiveHandles == SumOver(States, handles)

\* how much has been registered with the builder so far
RepSize(s) ==
    Cardinality(DOMAIN states[s].value.trigger_behaviours)
    + Len(states[s].value.entry_actions)
    + Len(states[s].value.exit_actions)
    + SumOver(Triggers, [t \in Triggers |-> Len(supplied[s][t])])

Registered ==
    SumOver(DOMAIN states, [s \in DOMAIN states |-> RepSize(s)])
    + Len(transition_event.events)

\* builder.config(state): a new StateConfig holding a clone of the Rc
Config(state) ==
    /\ phase = "builder"
    /\ LiveHandles < MaxHandles
    /\ state \in DOMAIN states
    /\ states' = config(states, state)
    /\ handles' = [handles EXCEPT ![state] = @ + 1]
    /\ UNCHANGED <<phase, initial_state, transition_event, supplied, calls>>
    /\ UNCHANGED machine_vars

\* a StateConfig for state goes out of scope
DropConfig(state) ==
    /\ phase = "builder"
    /\ handles[state] > 0
    /\ states' = [states EXCEPT ![state] = Rc_drop(@)]
    /\ handles' = [handles EXCEPT ![state] = @ - 1]
    /\ UNCHANGED <<phase, initial_state, transition_event, supplied, calls>>
    /\ UNCHANGED machine_vars

\* a call through a live StateConfig for state
Register(state) ==
    /\ phase = "builder"
    /\ handles[state] > 0
    /\ Registered < MaxRegs
    /\ UNCHANGED <<phase, initial_state, handles>>
    /\ UNCHANGED machine_vars

Permit(state, trigger, destination) ==
    /\ Register(state)
    /\ states' = [states EXCEPT ![state] = permit(@, trigger, destination)]
    /\ calls' = [calls EXCEPT ![state].behaviour[trigger] =
                     [kind |-> "Transitioning", destination |-> destination]]
    /\ UNCHANGED <<transition_event, supplied>>

InternalTransition(state, trigger, action) ==
    /\ Register(state)
    /\ states' = [states EXCEPT ![state] = internal_transition(@, trigger, action)]
    /\ supplied' = [supplied EXCEPT ![state][trigger] = Append(@, action)]
    /\ calls' = [calls EXCEPT ![state].behaviour[trigger] =
                     [kind |-> "Internal", destination |-> NoState]]
    /\ UNCHANGED transition_event

OnEntry(state, action) ==
    /\ Register(state)
    /\ states' = [states EXCEPT ![state] = on_entry(@, action)]
    /\ calls' = [calls EXCEPT ![state].entry = Append(@, action)]
    /\ UNCHANGED <<transition_event, supplied>>

OnExit(state, action) ==
    /\ Register(state)
    /\ states' = [states EXCEPT ![state] = on_exit(@, action)]
    /\ calls' = [calls EXCEPT ![state].exit = Append(@, action)]
    /\ UNCHANGED <<transition_event, supplied>>

OnTransitioned(listener) ==
    /\ phase = "builder"
    /\ Registered < MaxRegs
    /\ transition_event' = on_transitioned(transition_event, listener)
    /\ UNCHANGED <<phase, initial_state, states, handles, supplied, calls>>
    /\ UNCHANGED machine_vars

\* builder.build(state_object) consumes the builder
Build(state_object) ==
    /\ phase = "builder"
    /\ \E order \in Orders(DOMAIN states) :
       LET builder == [initial_state |-> initial_state, states |-> states,
                       transition_event |-> transition_event]
           built == build(builder, state_object, order)
       IN /\ build_result' = built.err
          /\ phase' = IF built.ok THEN "machine" ELSE "build_failed"
          /\ current_state' = built.machine.current_state
          /\ state_representations' = built.machine.state_representations
          /\ object' = built.machine.object
          /\ locked' = built.machine.locked
          /\ log' = built.machine.log
          /\ transition_event' = built.machine.transition_event
          /\ states' = EmptyMap
          \* a failed build drops the table and every registration in it
          /\ calls' = IF built.ok THEN calls ELSE [s \in States |-> NoCalls]
    /\ UNCHANGED <<initial_state, handles, last, supplied, pending>>

Self ==
    [current_state |-> current_state,
     state_representations |-> state_representations,
     object |-> object,
     locked |-> locked,
     transition_event |-> transition_event,
     log |-> <<>>]

\* machine.fire(trigger)
Fire(trigger) ==
    /\ phase = "machine"
    /\ last.result # Panic
    /\ object < MaxObject
    /\ LET fired == fire(Self, trigger)
       IN /\ current_state' = fired.m.current_state
          /\ object' = fired.m.object
          /\ locked' = fired.m.locked
          /\ log' = fired.m.log
          /\ state_representations' = fired.m.state_representations
          /\ transition_event' = fired.m.transition_event
          /\ last' = [trigger |-> trigger, result |-> fired.result,
                      source |-> current_state, object |-> object,
                      behaviour |-> fired.behaviour]
    /\ UNCHANGED <<phase, initial_state, states, handles, build_result, supplied, calls,
                   pending>>

Next ==
    \/ \E s \in States : Config(s)
    \/ \E s \in States : DropConfig(s)
    \/ \E s \in States, t \in Triggers, d \in States : Permit(s, t, d)
    \/ \E s \in States, t \in Triggers, a \in ActionIds : InternalTransition(s, t, a)
    \/ \E s \in States, a \in ActionIds : OnEntry(s, a)
    \/ \E s \in States, a \in ActionIds : OnExit(s, a)
    \/ \E l \in ListenerIds : OnTransitioned(l)
    \/ \E o \in InitialObjects : Build(o)
    \/ \E t \in Triggers : Fire(t)

Spec == Init /\ [][Next]_vars

\* ------------------------------------------- representations built directly
\* Inside the crate a StateRepresentation is also built with its own add_..
\* methods, as the unit tests of state_representation.rs do, and handed to
\* StateMachine::new.  This is the only way a representation comes to hold
\* internal actions.
Behaviours ==
    {InternalTransitioningTriggerBehaviour_new(t) : t \in Triggers}
    \cup {TransitioningTriggerBehaviour_new(t, d) : t \in Triggers, d \in States}

InternalSize(rep) ==
    SumOver(DOMAIN rep.internal_actions,
            [t \in DOMAIN rep.internal_actions |-> Len(rep.internal_actions[t])])

RepsRegistered ==
    SumOver(DOMAIN state_representations,
            [s \in DOMAIN state_representations |->
                Cardinality(DOMAIN state_representations[s].trigger_behaviours)
                + Len(state_representations[s].entry_actions)
                + Len(state_representations[s].exit_actions)
                + InternalSize(state_representations[s])])
    + Len(transition_event.events)

InitRep ==
    \E initial \in States :
        /\ phase = "reps"
        /\ initial_state = initial
        /\ states = EmptyMap
        /\ transition_event = TransitionEventHandler_new
        /\ handles = [s \in States |-> 0]
        /\ current_state = NoState
        /\ state_representations = [s \in States |-> StateRepresentation_new(s)]
        /\ object = 0
        /\ locked = FALSE
        /\ log = <<>>
        /\ last = NoCall
        /\ build_result = NotCalled
        /\ supplied = [s \in States |-> [t \in Triggers |-> <<>>]]
        /\ calls = [s \in States |-> NoCalls]
        /\ pending = NoPending

rep_frame == <<phase, initial_state, states, handles, current_state, object, locked, log,
               last, build_result, calls, pending>>

\* a call of an add_.. method on the representation of state
AddToRep(state) ==
    /\ phase = "reps"
    /\ RepsRegistered < MaxRegs
    /\ UNCHANGED rep_frame

AddTriggerBehaviour(state, behaviour) ==
    /\ AddToRep(state)
    /\ state_representations' =
           [state_representations EXCEPT
               ![state] = add_trigger_behaviour(@, behaviour.trigger, behaviour)]
    /\ UNCHANGED <<transition_event, supplied>>

AddEntryAction(state, f) ==
    /\ AddToRep(state)
    /\ state_representations' =
           [state_representations EXCEPT ![state] = add_entry_action(@, f)]
    /\ UNCHANGED <<transition_event, supplied>>

AddExitAction(state, f) ==
    /\ AddToRep(state)
    /\ state_representations' =
           [state_representations EXCEPT ![state] = add_exit_action(@, f)]
    /\ UNCHANGED <<transition_event, supplied>>

AddInternalAction(state, trigger, f) ==
    /\ AddToRep(state)
    /\ state_representations' =
           [state_representations EXCEPT ![state] = add_internal_action(@, trigger, f)]
    /\ supplied' = [supplied EXCEPT ![state][trigger] = Append(@, f)]
    /\ UNCHANGED transition_event

AddEvent(listener) ==
    /\ phase = "reps"
    /\ RepsRegistered < MaxRegs
    /\ transition_event' = add_event(transition_event, listener)
    /\ UNCHANGED <<state_representations, supplied>>
    /\ UNCHANGED rep_frame

\* rep.fire_internal_actions(&Transition::new(state, trigger, state), Arc::clone(&state))
\* called on a representation, outside any machine
CallFireInternalActions(state, trigger) ==
    /\ phase = "reps"
    /\ LET transition == Transition_new(state, trigger, state)
           m == [current_state |-> NoState,
                 state_representations |-> state_representations,
                 object |-> object, locked |-> locked,
                 transition_event |-> transition_event, log |-> <<>>]
           ran == fire_internal_actions(state_representations[state], transition, m)
       IN /\ object' = ran.object
          /\ locked' = ran.locked
          /\ log' = ran.log
          /\ last' = [trigger |-> trigger, result |-> Ok, source |-> state,
                      object |-> object, behaviour |-> [kind |-> "Called"]]
    /\ phase' = "called"
    /\ UNCHANGED <<initial_state, states, transition_event, handles, current_state,
                   state_representations, build_result, supplied, calls, pending>>

\* StateMachine::new(initial_state, state_representations, object, transition_event)
NewMachine(state_object) ==
    /\ phase = "reps"
    /\ LET machine == StateMachine_new(initial_state, state_representations,
                                       state_object, transition_event)
       IN /\ current_state' = machine.current_state
          /\ state_representations' = machine.state_representations
          /\ object' = machine.object
          /\ locked' = machine.locked
          /\ log' = machine.log
          /\ transition_event' = machine.transition_event
    /\ phase' = "machine"
    /\ UNCHANGED <<initial_state, states, handles, last, build_result, supplied, calls,
                   pending>>

NextRep ==
    \/ \E s \in States, b \in Behaviours : AddTriggerBehaviour(s, b)
    \/ \E s \in States, a \in ActionIds : AddEntryAction(s, a)
    \/ \E s \in States, a \in ActionIds : AddExitAction(s, a)
    \/ \E s \in States, t \in Triggers, a \in ActionIds : AddInternalAction(s, t, a)
    \/ \E l \in ListenerIds : AddEvent(l)
    \/ \E s \in States, t \in Triggers : CallFireInternalActions(s, t)
    \/ \E o \in InitialObjects : NewMachine(o)
    \/ \E t \in Triggers : Fire(t)

SpecRep == InitRep /\ [][NextRep]_vars

\* ------------------------------------------------- a machine of three states
\* The State type is generic; with a third state a transition has bystanders.
States3 == States \cup {"State3"}

Init3 ==
    \E initial \in States3 :
        /\ phase = "reps"
        /\ initial_state = initial
        /\ states = EmptyMap
        /\ transition_event = TransitionEventHandler_new
        /\ handles = [s \in States |-> 0]
        /\ current_state = NoState
        /\ state_representations = [s \in States3 |-> StateRepresentation_new(s)]
        /\ object = 0
        /\ locked = FALSE
        /\ log = <<>>
        /\ last = NoCall
        /\ build_result = NotCalled
        /\ supplied = [s \in States |-> [t \in Triggers |-> <<>>]]
        /\ calls = [s \in States |-> NoCalls]
        /\ pending = NoPending

Next3 ==
    \/ \E s \in States3, d \in States3 :
           AddTriggerBehaviour(s, TransitioningTriggerBehaviour_new("Trig", d))
    \/ \E s \in States3 : AddEntryAction(s, 1)
    \/ \E s \in States3 : AddExitAction(s, 1)
    \/ \E o \in InitialObjects : NewMachine(o)
    \/ Fire("Trig")

Spec3 == Init3 /\ [][Next3]_vars

\* ---------------------------------------------------- fire, step by step
\* fire is an ordinary method call on &mut self: the caller waits in it while
\* fireone works through its statements one after the other.  Here the call
\* is entered (Call), each lock, action, unlock, state write and listener
\* invocation of fireone is one step (Step), and the call returns (Return).
Call(trigger) ==
    /\ phase = "machine"
    /\ last.result # Panic
    /\ object < MaxObject
    /\ LET fired == fire(Self, trigger)
       IN /\ pending' = [todo |-> fired.m.log, result |-> fired.result,
                         behaviour |-> fired.behaviour]
          /\ last' = [trigger |-> trigger, result |-> NotCalled,
                      source |-> current_state, object |-> object,
                      behaviour |-> [kind |-> "None"]]
    /\ phase' = "firing"
    /\ log' = <<>>
    /\ UNCHANGED <<initial_state, states, transition_event, handles, current_state,
                   state_representations, object, locked, build_result, supplied, calls>>

\* the next statement of the call in progress
Step ==
    /\ phase = "firing"
    /\ pending.todo # <<>>
    /\ LET e == Head(pending.todo)
       IN /\ log' = Append(log, e)
          /\ object' = e.object
          /\ current_state' = e.cur
          /\ locked' = IF e.kind = "lock" THEN TRUE
                       ELSE IF e.kind = "unlock" THEN FALSE ELSE locked
    /\ pending' = [pending EXCEPT !.todo = Tail(@)]
    /\ UNCHANGED <<phase, initial_state, states, transition_event, handles,
                   state_representations, last, build_result, supplied, calls>>

\* a call that hands back its result and leaves the rest of its work queued
ReturnEarly ==
    /\ phase = "firing"
    /\ phase' = "machine"
    /\ last' = [last EXCEPT !.result = pending.result, !.behaviour = pending.behaviour]
    /\ UNCHANGED <<initial_state, states, transition_event, handles, current_state,
                   state_representations, object, locked, log, build_result, supplied,
                   calls, pending>>

\* Ok(()) or the error of get_behaviour is handed back to the caller
Return ==
    /\ phase = "firing"
    /\ pending.todo = <<>>
    /\ phase' = "machine"
    /\ last' = [last EXCEPT !.result = pending.result, !.behaviour = pending.behaviour]
    /\ pending' = NoPending
    /\ UNCHANGED <<initial_state, states, transition_event, handles, current_state,
                   state_representations, object, locked, log, build_result, supplied,
                   calls>>

NextStep ==
    \/ \E s \in States, b \in {b \in Behaviours : b.trigger = "Trig"} :
           AddTriggerBehaviour(s, b)
    \/ \E s \in States : AddEntryAction(s, 1)
    \/ \E s \in States : AddExitAction(s, 1)
    \/ \E s \in States : AddInternalAction(s, "Trig", 1)
    \/ AddEvent(1)
    \/ \E o \in InitialObjects : NewMachine(o)
    \/ Call("Trig")
    \/ Step
    \/ Return

\* the thread that called fire keeps running, and every action and listener
\* it invokes terminates
SpecStep == InitRep /\ [][NextStep]_vars /\ WF_vars(Step) /\ WF_vars(Return)

\* ------------------------------------------------------------ observations
Fired == phase = "machine" /\ last.result # NotCalled

Succeeded == Fired /\ last.result = Ok

IsAction(e) == e.kind \in {"exit", "entry", "internal"}

IsListener(e) == e.kind = "listener"

IsInternal(e) == e.kind = "internal"

IsEntry(e) == e.kind = "entry"

IsExit(e) == e.kind = "exit"

IsObservable(e) == e.kind \notin {"lock", "unlock"}

\* what an observer of one fire call sees of each step
View(e) == <<e.kind, e.idx, e.act, e.cur>>

Views(entries) == [i \in DOMAIN entries |-> View(entries[i])]

Acts(entries) == [i \in DOMAIN entries |-> entries[i].act]

RepOf(s) == state_representations[s]

Unregistered(s, t) ==
    s \in DOMAIN state_representations /\ t \notin DOMAIN RepOf(s).trigger_behaviours

\* nothing was ever registered for s: its representation is as the constructor made it
Unconfigured(s) ==
    s \in DOMAIN state_representations => RepOf(s) = StateRepresentation_new(s)

\* entries carry their position in the list they were run from
InOrder(entries) == \A i \in DOMAIN entries : entries[i].idx = i

RECURSIVE SeqSum(_)
SeqSum(q) == IF q = <<>> THEN 0 ELSE Head(q) + SeqSum(Tail(q))

\* fire_internal_actions was called on a representation outside any machine
Called == phase = "called"

\* the representation of s, in the builder's table or in the machine's
Representation(s) ==
    IF phase = "builder" THEN states[s].value ELSE state_representations[s]

\* the behaviour that the caller's last permit or internal_transition call
\* for trigger asked for
Requested(request, trigger) ==
    IF request.kind = "Transitioning"
    THEN TransitioningTriggerBehaviour_new(trigger, request.destination)
    ELSE InternalTransitioningTriggerBehaviour_new(trigger)

\* the context lock is held just before step i of the call
HeldBefore(i) ==
    \E j \in 1..(i - 1) :
        /\ log[j].kind = "lock"
        /\ \A k \in (j + 1)..(i - 1) : log[k].kind # "unlock"

\* the triggers the caller registered a behaviour for on a state
RequestedTriggers(s) == {t \in Triggers : calls[s].behaviour[t].kind # "None"}

\* the caller asked every state to move to another state on trigger
Toggles(trigger) ==
    \A s \in States : \E d \in States \ {s} :
        calls[s].behaviour[trigger] = [kind |-> "Transitioning", destination |-> d]

ExpectedSteps(kind, actions, cur) ==
    [i \in DOMAIN actions |-> <<kind, i, actions[i], cur>>]

\* a fire call has been entered and has not returned
Firing == phase = "firing"

\* no fire call is in progress
Idle == phase = "machine"

\* the steps a successful fire has to have made by the time it returns
StepsOfCall ==
    IF last.behaviour.kind = "Transitioning"
    THEN ExpectedSteps("exit", RepOf(last.source).exit_actions, last.source)
         \o << <<"write", 0, 0, last.behaviour.destination>> >>
         \o ExpectedSteps("entry", RepOf(last.behaviour.destination).entry_actions,
                          last.behaviour.destination)
         \o ExpectedSteps("listener", transition_event.events,
                          last.behaviour.destination)
    ELSE ExpectedSteps("internal",
                       IF last.trigger \in DOMAIN RepOf(last.source).internal_actions
                       THEN RepOf(last.source).internal_actions[last.trigger]
                       ELSE <<>>,
                       last.source)
         \o ExpectedSteps("listener", transition_event.events, last.source)

\* ------------------------------------------------------------------- claims
\* C1: for every state S and every trigger T with no behaviour registered for
\* S, fire(T) while the current state is S returns TriggerNotPermitted{S, T}.
C1_UnregisteredTriggerNotPermitted ==
    Fired /\ Unregistered(last.source, last.trigger)
        => last.result = TriggerNotPermitted(last.source, last.trigger)

C1_Witness ==
    /\ Fired
    /\ Unregistered(last.source, last.trigger)
    /\ DOMAIN RepOf(last.source).trigger_behaviours # {}
    /\ last.result = TriggerNotPermitted(last.source, last.trigger)

\* C2: a fire call that returns TriggerNotPermitted leaves the current state
\* and the context unchanged and runs no exit, entry or internal action and
\* no global listener.
C2_RejectedFireHasNoEffect ==
    Fired /\ last.result.kind = "TriggerNotPermitted"
        => /\ current_state = last.source
           /\ object = last.object
           /\ \A i \in DOMAIN log : ~IsAction(log[i]) /\ ~IsListener(log[i])
           /\ \A i \in DOMAIN log : log[i].kind # "write"

C2_Witness ==
    /\ Fired
    /\ last.result.kind = "TriggerNotPermitted"
    /\ object > 0
    /\ Len(transition_event.events) > 0
    /\ current_state = last.source
    /\ log = <<>>

C4_InternalActionRuns ==
    /\ Succeeded
    /\ last.behaviour.kind = "Internal"
    /\ Len(supplied[last.source][last.trigger]) = 1
    => /\ Acts(SelectSeq(log, IsInternal)) = supplied[last.source][last.trigger]
       /\ object = last.object + supplied[last.source][last.trigger][1]

\* C5: a successful fire of a trigger whose behaviour in the current state is
\* Internal never changes the current state and never runs an entry or exit
\* action of the current state.
C5_InternalStaysInPlace ==
    Succeeded /\ last.behaviour.kind = "Internal"
        => /\ current_state = last.source
           /\ \A i \in DOMAIN log : log[i].kind \notin {"entry", "exit", "write"}
           /\ \A i \in DOMAIN log : log[i].cur = last.source

C5_Witness ==
    /\ Succeeded
    /\ last.behaviour.kind = "Internal"
    /\ RepOf(last.source).entry_actions # <<>>
    /\ RepOf(last.source).exit_actions # <<>>
    /\ current_state = last.source

\* C6: every successful fire call, Transitioning or Internal, whether or not
\* the state changed, invokes each registered global listener exactly once,
\* in the order of registration.
C6_ListenersOncePerFire ==
    Succeeded
        => /\ Acts(SelectSeq(log, IsListener)) = transition_event.events
           /\ \A i \in DOMAIN SelectSeq(log, IsListener) :
                  SelectSeq(log, IsListener)[i].idx = i

C6_Witness ==
    /\ Succeeded
    /\ last.behaviour.kind = "Internal"
    /\ Len(transition_event.events) = 2
    /\ transition_event.events[1] # transition_event.events[2]
    /\ Acts(SelectSeq(log, IsListener)) = transition_event.events

\* C7: if a handle obtained from config(state) is still alive when build is
\* called, build fails with ConfigStillInUse{state} for a state whose handle
\* is outstanding, and no machine is produced.
C7_BuildFailsWithLiveHandle ==
    phase # "builder" /\ LiveHandles > 0
        => /\ phase = "build_failed"
           /\ build_result.kind = "ConfigStillInUse"
           /\ build_result.state \in States
           /\ handles[build_result.state] > 0
           /\ current_state = NoState
           /\ state_representations = EmptyMap

C7_Witness ==
    /\ phase = "build_failed"
    /\ \E s \in States : handles[s] = 0
    /\ \E s \in States : handles[s] > 0 /\ build_result = ConfigStillInUse(s)

\* C8: if no handle is alive when build is called, build succeeds, however
\* many handles were obtained and released before and for whichever states.
C8_BuildSucceedsWithoutHandles ==
    phase # "builder" /\ LiveHandles = 0
        => /\ phase = "machine"
           /\ build_result = Ok
           /\ current_state \in States
           /\ last = NoCall => current_state = initial_state

C8_Witness ==
    /\ phase = "machine"
    /\ LiveHandles = 0
    /\ build_result = Ok
    /\ \A s \in States : ~Unconfigured(s)

\* C9: a state the caller never configured is a valid current state and a
\* valid destination: a Transitioning fire into it succeeds, and every fire
\* from it fails with TriggerNotPermitted, never with StateNotConfigured and
\* never with a panic.
C9_UnconfiguredStateIsValid ==
    Fired
        => /\ last.result.kind \notin {"StateNotConfigured", "panic"}
           /\ Unconfigured(last.source)
                  => last.result = TriggerNotPermitted(last.source, last.trigger)
           /\ last.behaviour.kind = "Transitioning"
              /\ Unconfigured(last.behaviour.destination)
                  => last.result = Ok /\ current_state = last.behaviour.destination

C9_Witness ==
    /\ Fired
    /\ Unconfigured(last.source)
    /\ last.source # initial_state
    /\ last.result = TriggerNotPermitted(last.source, last.trigger)

\* C10: from Builder::new onward and in every reachable state of the built
\* machine, the table holds one representation for every value of the State
\* domain, so the lookup of the current state's representation never fails.
C10_EveryStateHasRepresentation ==
    /\ phase = "builder"
           => /\ DOMAIN states = States
              /\ \A s \in States : states[s].value.state = s
    /\ phase = "machine"
           => /\ DOMAIN state_representations = States
              /\ \A s \in States : state_representations[s].state = s
              /\ representation(Self).some
              /\ last.result # Panic

C10_Witness ==
    /\ phase = "machine"
    /\ Succeeded
    /\ current_state # initial_state
    /\ representation(Self).some
    /\ representation(Self).rep.state = current_state

\* C11: after a successful fire of a trigger registered with
\* permit(trigger, D) on the current state, state() is D; with Trig
\* registered from each of two states to the other, every successful fire of
\* Trig leaves the machine in the state it was not in (so an odd number of
\* fires from the first state ends in the second).
C11_StateIsDestination ==
    /\ Succeeded /\ last.behaviour.kind = "Transitioning"
           => /\ calls[last.source].behaviour[last.trigger].kind = "Transitioning"
              /\ current_state = calls[last.source].behaviour[last.trigger].destination
    /\ (Succeeded /\ Toggles(last.trigger)) => current_state # last.source

C11_Witness ==
    /\ Succeeded
    /\ Toggles(last.trigger)
    /\ current_state # last.source
    /\ current_state = calls[last.source].behaviour[last.trigger].destination

\* C12: a successful fire of a Transitioning trigger whose destination is
\* the current state runs all exit actions of that state and then all its
\* entry actions, each once and in order; the same trigger registered as
\* Internal runs no exit and no entry action.
C12_ReentryRunsExitThenEntry ==
    /\ Succeeded /\ last.behaviour.kind = "Transitioning"
           /\ last.behaviour.destination = last.source
           => /\ current_state = last.source
              /\ Views(SelectSeq(log, IsAction)) =
                     ExpectedSteps("exit", RepOf(last.source).exit_actions, last.source)
                     \o ExpectedSteps("entry", RepOf(last.source).entry_actions,
                                      last.source)
    /\ Succeeded /\ last.behaviour.kind = "Internal"
           => /\ SelectSeq(log, IsExit) = <<>>
              /\ SelectSeq(log, IsEntry) = <<>>

C12_Witness ==
    /\ Succeeded
    /\ last.behaviour.kind = "Transitioning"
    /\ last.behaviour.destination = last.source
    /\ RepOf(last.source).exit_actions # <<>>
    /\ RepOf(last.source).entry_actions # <<>>
    /\ Len(SelectSeq(log, IsAction)) = 2

\* C13: entry and exit actions accumulate: after k on_entry calls on a state
\* a fire that enters it runs exactly those k closures, once each, in the
\* order of the calls, and likewise the on_exit closures of the state left;
\* closures adding 1 and then 2 to a context of 0 leave it at 3.
C13_ActionsAccumulate ==
    Succeeded /\ last.behaviour.kind = "Transitioning"
        => LET entered == SelectSeq(log, IsEntry)
               left == SelectSeq(log, IsExit)
           IN /\ Acts(entered) = calls[current_state].entry
              /\ InOrder(entered)
              /\ Acts(left) = calls[last.source].exit
              /\ InOrder(left)
              /\ object = last.object + SeqSum(calls[last.source].exit)
                                      + SeqSum(calls[current_state].entry)

C13_Witness ==
    /\ Succeeded
    /\ last.behaviour.kind = "Transitioning"
    /\ calls[current_state].entry = <<1, 2>>
    /\ last.object = 0
    /\ object = 3

\* C14: a successful fire of a Transitioning trigger T never runs an
\* internal action, in particular not the ones the destination state holds
\* for that same trigger T: only the exit actions of the source and the
\* entry actions of the destination touch the context.
C14_ArrivalRunsNoInternalAction ==
    Succeeded /\ last.behaviour.kind = "Transitioning"
        => /\ SelectSeq(log, IsInternal) = <<>>
           /\ object = last.object + SeqSum(RepOf(last.source).exit_actions)
                                   + SeqSum(RepOf(current_state).entry_actions)

C14_Witness ==
    /\ Succeeded
    /\ last.behaviour.kind = "Transitioning"
    /\ current_state # last.source
    /\ last.trigger \in DOMAIN RepOf(current_state).internal_actions
    /\ supplied[current_state][last.trigger] # <<>>
    /\ object = last.object

\* C15: fire_internal_actions, called directly or by an Internal fire, runs
\* exactly the actions added with add_internal_action for the state and the
\* trigger of the transition, all of them, once each, in the order they were
\* added, and none added for another trigger; with none added for the
\* trigger it runs nothing.
C15_InternalActionsOfTheTrigger ==
    Called \/ (Succeeded /\ last.behaviour.kind = "Internal")
        => LET ran == SelectSeq(log, IsInternal)
           IN /\ Acts(ran) = supplied[last.source][last.trigger]
              /\ InOrder(ran)
              /\ \A i \in DOMAIN ran :
                     /\ ran[i].state = last.source
                     /\ ran[i].transition =
                            Transition_new(last.source, last.trigger, last.source)
              /\ SelectSeq(log, IsEntry) = <<>> /\ SelectSeq(log, IsExit) = <<>>
              /\ object = last.object + SeqSum(supplied[last.source][last.trigger])

C15_Witness ==
    /\ Called
    /\ supplied[last.source][last.trigger] = <<1, 2>>
    /\ \E t \in Triggers \ {last.trigger} : supplied[last.source][t] = <<2>>
    /\ Acts(SelectSeq(log, IsInternal)) = <<1, 2>>

\* C16: a state holds at most one behaviour per trigger, the one of the last
\* permit or internal_transition call made for that state and trigger (none
\* if no call was made), and fire resolves the trigger to that behaviour.
C16_LastRegistrationWins ==
    /\ phase \in {"builder", "machine"}
           => \A s \in States, t \in Triggers :
                  LET table == Representation(s).trigger_behaviours
                  IN IF calls[s].behaviour[t].kind = "None"
                     THEN t \notin DOMAIN table
                     ELSE /\ t \in DOMAIN table
                          /\ table[t] = Requested(calls[s].behaviour[t], t)
    /\ Succeeded
           => last.behaviour = Requested(calls[last.source].behaviour[last.trigger],
                                         last.trigger)

C16_Witness ==
    /\ Succeeded
    /\ last.behaviour.kind = "Transitioning"
    /\ supplied[last.source][last.trigger] # <<>>
    /\ current_state # last.source
    /\ calls[last.source].behaviour[last.trigger].kind = "Transitioning"

\* C18: fire fails only with TriggerNotPermitted and build fails only with
\* ConfigStillInUse; StateNotConfigured and Unknown are never returned, and
\* no call panics.
C18_OnlyTwoErrors ==
    /\ last.result \in {NotCalled, Ok, TriggerNotPermitted(last.source, last.trigger)}
    /\ build_result \in {NotCalled, Ok} \cup {ConfigStillInUse(s) : s \in States}
    /\ phase = "build_failed" <=> build_result.kind = "ConfigStillInUse"

C18_Witness ==
    /\ build_result = Ok
    /\ Fired
    /\ last.result.kind = "TriggerNotPermitted"
    /\ DOMAIN RepOf(last.source).trigger_behaviours = {}
    /\ \E s \in States : DOMAIN RepOf(s).trigger_behaviours # {}

\* C19: the context lock is taken and released once for every action
\* invocation: it is taken when free immediately before each entry, exit or
\* internal action and released immediately after it, so it is free between
\* two consecutive actions, when the current state is written, while the
\* global listeners run and when fire returns.
C19_LockPerAction ==
    Fired
        => /\ locked = FALSE
           /\ \A i \in DOMAIN log :
                  /\ IsAction(log[i])
                         => /\ i > 1 /\ log[i - 1].kind = "lock"
                            /\ i < Len(log) /\ log[i + 1].kind = "unlock"
                  /\ log[i].kind = "lock"
                         => ~HeldBefore(i) /\ i < Len(log) /\ IsAction(log[i + 1])
                  /\ log[i].kind = "unlock" => HeldBefore(i)
                  /\ log[i].kind \in {"write", "listener"} => ~HeldBefore(i)

C19_Witness ==
    /\ Succeeded
    /\ last.behaviour.kind = "Transitioning"
    /\ Len(SelectSeq(log, IsExit)) = 2
    /\ \E i \in DOMAIN log :
           /\ i + 3 \in DOMAIN log
           /\ log[i].kind = "exit" /\ log[i + 1].kind = "unlock"
           /\ log[i + 2].kind = "lock" /\ log[i + 3].kind = "exit"
    /\ locked = FALSE

C21_TableClosedAfterBuild ==
    [][phase = "machine"
           => /\ phase' = "machine"
              /\ state_representations' = state_representations
              /\ transition_event' = transition_event
              /\ \A s \in States, t \in Triggers :
                     get_behaviour(state_representations'[s], t).ok
                         = get_behaviour(state_representations[s], t).ok]_vars

C21_Witness ==
    /\ Succeeded
    /\ current_state # last.source
    /\ Len(transition_event.events) > 0
    /\ RepOf(current_state).entry_actions # <<>>
    /\ Len(SelectSeq(log, IsListener)) = Len(transition_event.events)

\* C22: within one successful fire every exit, entry and internal action and
\* every global listener receives the same Transition value: its source is
\* the current state before the call, its trigger the fired trigger and its
\* destination the state the behaviour resolved to, which is the current
\* state after the call.
C22_OneTransitionPerFire ==
    Succeeded
        => /\ \A i \in DOMAIN log :
                  IsAction(log[i]) \/ IsListener(log[i])
                      => log[i].transition =
                             Transition_new(last.source, last.trigger, current_state)
           /\ last.behaviour.kind = "Transitioning"
                  => current_state = last.behaviour.destination
           /\ last.behaviour.kind = "Internal" => current_state = last.source

C22_Witness ==
    /\ Succeeded
    /\ last.behaviour.kind = "Transitioning"
    /\ current_state # last.source
    /\ \E i, j \in DOMAIN log :
           /\ log[i].kind = "exit" /\ log[j].kind = "listener"
           /\ log[i].transition = log[j].transition
           /\ log[i].transition.source = last.source
           /\ log[i].transition.destination = current_state

\* C24: immediately after a successful build, state() is the initial state
\* given to Builder::new and the context is the value passed to build: build
\* has run no entry action of the initial state, no other action and no
\* listener, and has left the context lock free.
C24_BuildRunsNothing ==
    phase = "machine" /\ last = NoCall
        => /\ current_state = initial_state
           /\ object \in InitialObjects
           /\ log = <<>>
           /\ locked = FALSE

C24_Witness ==
    /\ phase = "machine"
    /\ last = NoCall
    /\ build_result = Ok
    /\ RepOf(initial_state).entry_actions # <<>>
    /\ Len(transition_event.events) > 0
    /\ log = <<>>
    /\ object \in InitialObjects

\* C25: the current state changes only inside a successful fire of a
\* Transitioning trigger, and the context changes only through action
\* invocations: after any fire the context is the context before plus what
\* the invoked actions added, so a fire that invokes no action (no exit
\* action on the source and no entry action on the destination, or an
\* Internal fire with no internal action for the trigger) leaves it unchanged.
C25_ChangesOnlyThroughFireAndActions ==
    /\ phase = "machine"
           => current_state =
                  IF last = NoCall THEN initial_state
                  ELSE IF last.result = Ok /\ last.behaviour.kind = "Transitioning"
                       THEN last.behaviour.destination
                       ELSE last.source
    /\ Fired => object = last.object + SeqSum(Acts(SelectSeq(log, IsAction)))
    /\ Succeeded /\ last.behaviour.kind = "Transitioning"
           /\ RepOf(last.source).exit_actions = <<>>
           /\ RepOf(last.behaviour.destination).entry_actions = <<>>
           => object = last.object
    /\ Succeeded /\ last.behaviour.kind = "Internal"
           /\ last.trigger \notin DOMAIN RepOf(last.source).internal_actions
           => object = last.object

C25_Witness ==
    /\ Succeeded
    /\ last.behaviour.kind = "Transitioning"
    /\ current_state # last.source
    /\ RepOf(last.source).exit_actions = <<>>
    /\ RepOf(current_state).entry_actions = <<>>
    /\ RepOf(last.source).entry_actions # <<>>
    /\ Len(transition_event.events) > 0
    /\ object = last.object

\* C27: firing a Transitioning behaviour returns its configured destination
\* whatever the source state, and firing an Internal behaviour returns the
\* source state it was given, for every registered behaviour and every
\* source state; a successful fire of the machine ends in that state.
C27_BehaviourFire ==
    /\ \A s \in DOMAIN state_representations :
           \A t \in DOMAIN RepOf(s).trigger_behaviours :
               \A source \in States :
                   LET b == RepOf(s).trigger_behaviours[t]
                   IN IF b.kind = "Transitioning"
                      THEN Transitioning_fire(b, source) = b.destination
                      ELSE Internal_fire(b, source) = source
    /\ Succeeded
           => current_state = IF last.behaviour.kind = "Transitioning"
                              THEN RepOf(last.source).trigger_behaviours[last.trigger].destination
                              ELSE last.source

C27_Witness ==
    /\ Succeeded
    /\ last.behaviour.kind = "Internal"
    /\ last.source = "State2"
    /\ current_state = "State2"
    /\ \E s \in States :
           \E t \in DOMAIN RepOf(s).trigger_behaviours :
               RepOf(s).trigger_behaviours[t].kind = "Transitioning"

\* C28: is_reentry() of a Transition is true exactly when its source equals
\* its destination: it is true for the Transition of every Internal fire,
\* and for the Transition of a Transitioning fire it is true exactly when
\* the configured destination is the state the machine was in.
C28_IsReentry ==
    Succeeded
        => \A i \in DOMAIN log :
               IsAction(log[i]) \/ IsListener(log[i])
                   => /\ is_reentry(log[i].transition)
                          <=> log[i].transition.source = log[i].transition.destination
                      /\ last.behaviour.kind = "Internal"
                             => is_reentry(log[i].transition)
                      /\ last.behaviour.kind = "Transitioning"
                             => (is_reentry(log[i].transition)
                                     <=> last.behaviour.destination = last.source)

C28_Witness ==
    /\ Succeeded
    /\ last.behaviour.kind = "Transitioning"
    /\ last.behaviour.destination = last.source
    /\ \E i \in DOMAIN log : IsListener(log[i]) /\ is_reentry(log[i].transition)
    /\ \E i \in DOMAIN log : IsAction(log[i]) /\ is_reentry(log[i].transition)

\* C23: a Transitioning fire from S to a different state D runs only the
\* exit actions of S and the entry actions of D: the entry actions of S, the
\* exit actions of D and every action of any third state are not run.
C23_OnlySourceExitAndDestinationEntry ==
    Succeeded /\ last.behaviour.kind = "Transitioning" /\ current_state # last.source
        => /\ \A i \in DOMAIN log :
                  IsAction(log[i])
                      => \/ log[i].kind = "exit" /\ log[i].state = last.source
                         \/ log[i].kind = "entry" /\ log[i].state = current_state
           /\ Len(SelectSeq(log, IsExit)) = Len(RepOf(last.source).exit_actions)
           /\ Len(SelectSeq(log, IsEntry)) = Len(RepOf(current_state).entry_actions)
           /\ object = last.object + SeqSum(RepOf(last.source).exit_actions)
                                   + SeqSum(RepOf(current_state).entry_actions)

C23_Witness ==
    /\ Succeeded
    /\ last.behaviour.kind = "Transitioning"
    /\ current_state # last.source
    /\ \E third \in States3 \ {last.source, current_state} :
           RepOf(third).entry_actions # <<>> \/ RepOf(third).exit_actions # <<>>
    /\ RepOf(last.source).entry_actions # <<>> \/ RepOf(current_state).exit_actions # <<>>
    /\ SelectSeq(log, IsAction) = <<>>
    /\ object = last.object

\* C26: fire is synchronous and queues nothing: every fire call that is
\* entered eventually returns (each action and listener terminating); when
\* it has returned, every action and listener caused by its trigger has
\* run and nothing of the call is left to run; and between a return and the
\* next call nothing runs, so the steps of two calls never interleave.
C26_FireIsSynchronous ==
    /\ [](Idle => pending = NoPending /\ locked = FALSE)
    /\ [](Idle /\ last.result = Ok
              => Views(SelectSeq(log, IsObservable)) = StepsOfCall)
    /\ [](Firing
              => \A i \in DOMAIN log :
                     IsAction(log[i]) \/ IsListener(log[i])
                         => /\ log[i].transition.trigger = last.trigger
                            /\ log[i].transition.source = last.source)
    /\ [][Idle => phase' = "firing" /\ log' = <<>> /\ object' = object
                      /\ current_state' = current_state]_vars
    /\ (Firing ~> Idle)

C26_Witness ==
    /\ Idle
    /\ last.result = Ok
    /\ last.behaviour.kind = "Transitioning"
    /\ pending = NoPending
    /\ Len(SelectSeq(log, IsAction)) > 0
    /\ Len(SelectSeq(log, IsListener)) > 0
    /\ object > last.object

====
